---- MODULE Spec2Model ----
(***************************************************************************)
(* Interval-analysis engine of the Layer Coverage Viewer                   *)
(* (app_dash.py / app_streamlit.py; the engine functions are identical in  *)
(* both files).  Each engine function is an operator computed the way the  *)
(* Python code computes it; each specification draws the function's input  *)
(* from a bounded set in its Init and applies the function in one action.  *)
(* Ingestion (parse_stretch, parse_csv) is modelled the same way, and a    *)
(* session of either front end (the Dash callback process_upload, the      *)
(* Streamlit script) is a state machine with one action per user event.    *)
(*                                                                         *)
(* Python values:                                                          *)
(*   list            -> sequence                                           *)
(*   dict of a record-> record; an absent or empty "bill" is NoBill, an    *)
(*                      absent "month" is NoMonth (r.get(..) is falsy for  *)
(*                      both)                                              *)
(*   str that the code takes apart (layer, bill) -> sequence of characters *)
(*   result dict keyed by layer -> function over the layers present        *)
(*   raised exception -> field raised = TRUE of the result                 *)
(***************************************************************************)
EXTENDS Integers, Sequences, FiniteSets, TLC

VARIABLES pc, intervals, records, route_extent, filter_bills, filter_months,
          merged, overlaps, gaps, stretch_data, filtered, progress,
          content, parsed, frontend, loaded, ignore_upload, view,
          sessions

\* the variables of a session of a front end
sessionVars == <<frontend, loaded, ignore_upload, view>>

\* the other sessions a hosting front end serves beside the one whose
\* event it handles
serverVars == <<sessions>>

\* the variables of ingestion and of the front ends
frontVars == <<content, parsed, sessionVars, serverVars>>

vars == <<pc, intervals, records, route_extent, filter_bills, filter_months,
          merged, overlaps, gaps, stretch_data, filtered, progress, frontVars>>

(***************************************************************************)
(* Bounds of the model                                                     *)
(***************************************************************************)
MaxPos == 3        \* chainages of the merge / overlap / gap inputs: 0..MaxPos
MaxLen == 3        \* longest interval list / record list of those inputs
MaxChunk == 2      \* chunks 0..MaxChunk hold the chainages of the segmenter's input
MaxSegRecs == 1    \* longest record list of the segmenter's input
MaxFilterRecs == 2 \* longest record list of filter_records' input
MaxProgRecs == 2   \* longest record list of compute_progress' input
MaxRows == 2       \* most rows of a CSV file
NumSessions == 2   \* sessions served by one front end

(***************************************************************************)
(* Program constants                                                       *)
(***************************************************************************)
CHUNK_SIZE == 1000
DEFAULT_ROUTE_EXTENT == 8000

Max(a, b) == IF a >= b THEN a ELSE b
Min(a, b) == IF a <= b THEN a ELSE b

\* all sequences over S of length 0..n
SeqsUpTo(S, n) == UNION {[1..k -> S] : k \in 0..n}

RECURSIVE SumSeq(_)
SumSeq(s) == IF s = <<>> THEN 0 ELSE Head(s) + SumSeq(Tail(s))

(***************************************************************************)
(* Python's built-ins on strings and lists                                 *)
(***************************************************************************)
\* ord() of the characters the names of the model are made of
CharCode(c) ==
    CASE c = "A" -> 65
      [] c = "B" -> 66
      [] c = "L" -> 76
      [] c = "|" -> 124

\* a < b on str: lexicographic by code point
RECURSIVE StrLess(_, _)
StrLess(a, b) ==
    IF b = <<>> THEN FALSE
    ELSE IF a = <<>> THEN TRUE
    ELSE IF Head(a) = Head(b) THEN StrLess(Tail(a), Tail(b))
    ELSE CharCode(Head(a)) < CharCode(Head(b))

\* list.sort(key=..) / sorted(..): stable, ascending; lt holds the index
\* pairs <<i, j>> with key(s[i]) < key(s[j])
StableSort(s, lt) ==
    LET rank(i) == Cardinality({j \in 1..Len(s) :
                       <<j, i>> \in lt \/ (<<i, j>> \notin lt /\ j < i)})
    IN  [k \in 1..Len(s) |-> s[CHOOSE i \in 1..Len(s) : rank(i) = k - 1]]

\* sorted(a_set); lt holds the pairs <<x, y>> of elements with x < y
SortedSet(S, lt) ==
    [k \in 1..Cardinality(S) |->
        CHOOSE x \in S : Cardinality({y \in S : <<y, x>> \in lt}) = k - 1]

RECURSIVE Flatten(_)
Flatten(ss) == IF ss = <<>> THEN <<>> ELSE Head(ss) \o Flatten(Tail(ss))

(***************************************************************************)
(* merge_intervals                                                         *)
(***************************************************************************)
\* sorted(intervals, key=lambda x: x["start"]): Python's sort is stable
InsertByStart(s, x) ==
    LET k == Cardinality({i \in 1..Len(s) : s[i].start <= x.start})
    IN  SubSeq(s, 1, k) \o <<x>> \o SubSeq(s, k + 1, Len(s))

SortByStartOmitted(s) == s

RECURSIVE SortByStart(_)
SortByStart(s) ==
    IF s = <<>> THEN <<>>
    ELSE InsertByStart(SortByStart(SubSeq(s, 1, Len(s) - 1)), s[Len(s)])

\* if cur["start"] <= last["end"]
TouchesWrongField(cur, last) == cur.start <= last.start
TouchesStrict(cur, last) == cur.start < last.end
Touches(cur, last) == cur.start <= last.end

\* last["end"] = max(last["end"], cur["end"])
ExtendNoMax(last, cur) == cur.end
Extend(last, cur) == Max(last.end, cur.end)

RECURSIVE MergeLoop(_, _)
MergeLoop(acc, rest) ==
    IF rest = <<>> THEN acc
    ELSE LET cur  == Head(rest)
             last == acc[Len(acc)]
         IN  IF Touches(cur, last)
             THEN MergeLoop([acc EXCEPT ![Len(acc)].end = Extend(last, cur)],
                            Tail(rest))
             ELSE MergeLoop(Append(acc, cur), Tail(rest))

\* for cur in sorted_i[1:]
RestFromTwo(sorted_i) == SubSeq(sorted_i, 3, Len(sorted_i))
RestOf(sorted_i) == Tail(sorted_i)

merge_intervals(ivs) ==
    IF ivs = <<>> THEN <<>>
    ELSE LET sorted_i == SortByStart(ivs)
         IN  MergeLoop(<<sorted_i[1]>>, RestOf(sorted_i))

(***************************************************************************)
(* merge_intervals on dict objects.  The objects live in a heap (a         *)
(* sequence of dict contents); a reference is an index of the heap.  The   *)
(* caller's list holds the references 1..Len(ivs).  sorted() builds a new  *)
(* list of the same references, dict(d) builds a new object, and           *)
(* last["end"] = .. writes to the object last refers to.                   *)
(***************************************************************************)
\* dict(d)
AliasDict(heap, ref) == [heap |-> heap, ref |-> ref]
CopyDict(heap, ref) == [heap |-> Append(heap, heap[ref]), ref |-> Len(heap) + 1]

\* sorted(intervals, key=lambda x: x["start"]) as a list of references
SortedRefs(heap) ==
    LET keyed    == [i \in 1..Len(heap) |-> [start |-> heap[i].start, ref |-> i]]
        sorted_k == SortByStart(keyed)
    IN  [k \in 1..Len(heap) |-> sorted_k[k].ref]

RECURSIVE MergeLoopRefs(_, _, _)
MergeLoopRefs(heap, merged_refs, rest) ==
    IF rest = <<>> THEN [heap |-> heap, refs |-> merged_refs]
    ELSE LET cur      == heap[Head(rest)]
             last_ref == merged_refs[Len(merged_refs)]
             last     == heap[last_ref]
         IN  IF Touches(cur, last)
             THEN MergeLoopRefs([heap EXCEPT ![last_ref].end = Extend(last, cur)],
                                merged_refs, Tail(rest))
             ELSE LET new == CopyDict(heap, Head(rest))
                  IN  MergeLoopRefs(new.heap, Append(merged_refs, new.ref),
                                    Tail(rest))

\* a call of merge_intervals: the contents of the caller's list after the
\* call, and the contents of the list returned
merge_intervals_call(ivs) ==
    IF ivs = <<>> THEN [intervals |-> ivs, result |-> <<>>]
    ELSE LET sorted_i == SortedRefs(ivs)
             first    == CopyDict(ivs, sorted_i[1])
             done     == MergeLoopRefs(first.heap, <<first.ref>>,
                                       RestOf(sorted_i))
         IN  [intervals |-> SubSeq(done.heap, 1, Len(ivs)),
              result    |-> [k \in 1..Len(done.refs) |-> done.heap[done.refs[k]]]]

\* r.get("bill") / r.get("month") of a record without the tag
NoBill == <<>>
NoMonth == ""

(***************************************************************************)
(* Records grouped by layer (by_layer.setdefault(layer, []).append(..))    *)
(***************************************************************************)
LayersOf(recs) == {recs[i].layer : i \in 1..Len(recs)}

\* by_layer[l]: the {"start", "end"} projections of l's records, in order
by_layer(recs, l) ==
    LET sel == SelectSeq(recs, LAMBDA r : r.layer = l)
    IN  [i \in 1..Len(sel) |-> [start |-> sel[i].start, end |-> sel[i].end]]

(***************************************************************************)
(* find_overlaps_within_layer                                              *)
(***************************************************************************)
\* for i in range(n): for j in range(i + 1, n): the pairs in loop order
RECURSIVE PairsFrom(_, _, _)
PairsFrom(i, j, n) ==
    IF i > n THEN <<>>
    ELSE IF j > n THEN PairsFrom(i + 1, i + 2, n)
    ELSE <<<<i, j>>>> \o PairsFrom(i, j + 1, n)

\* start = max(a.start, b.start); end = min(a.end, b.end)
Intersection(a, b) ==
    [start |-> Max(a.start, b.start), end |-> Min(a.end, b.end)]

\* if start < end
KeptOrEmpty(iv) == iv.start <= iv.end
Kept(iv) == iv.start < iv.end

\* m -> {"start", "end", "len": m["end"] - m["start"]}
WithLen(ivs) ==
    [i \in 1..Len(ivs) |->
        [start |-> ivs[i].start, end |-> ivs[i].end,
         len |-> ivs[i].end - ivs[i].start]]

LayerOverlaps(ivs) ==
    LET pairs == PairsFrom(1, 2, Len(ivs))
        inter == [k \in 1..Len(pairs) |->
                     Intersection(ivs[pairs[k][1]], ivs[pairs[k][2]])]
    IN  WithLen(merge_intervals(SelectSeq(inter, Kept)))

find_overlaps_within_layer(recs) ==
    [l \in LayersOf(recs) |-> LayerOverlaps(by_layer(recs, l))]

(***************************************************************************)
(* find_gaps_per_layer                                                     *)
(***************************************************************************)
\* min(r["start"] for r in records), max(r["end"] for r in records)
min_start_first(recs) == recs[1].start
min_start(recs) ==
    CHOOSE m \in {recs[i].start : i \in 1..Len(recs)} :
        \A i \in 1..Len(recs) : m <= recs[i].start

max_end(recs) ==
    CHOOSE m \in {recs[i].end : i \in 1..Len(recs)} :
        \A i \in 1..Len(recs) : m >= recs[i].end

\* the walk over the merged intervals: <<pos, gaps>> after the loop
RECURSIVE GapWalk(_, _, _)
GapWalk(segs, pos, acc) ==
    IF segs = <<>> THEN <<pos, acc>>
    ELSE LET seg == Head(segs)
         IN  GapWalk(Tail(segs), Max(pos, seg.end),
                     IF pos < seg.start
                     THEN Append(acc, [start |-> pos, end |-> seg.start,
                                       len |-> seg.start - pos])
                     ELSE acc)

LayerGaps(ivs, lo, hi) ==
    LET walked == GapWalk(merge_intervals(ivs), lo, <<>>)
        pos    == walked[1]
    IN  IF pos < hi
        THEN Append(walked[2], [start |-> pos, end |-> hi, len |-> hi - pos])
        ELSE walked[2]

\* min() / max() of an empty sequence raise ValueError
find_gaps_per_layer(recs) ==
    IF recs = <<>>
    THEN [raised |-> TRUE, result |-> <<>>]
    ELSE [raised |-> FALSE,
          result |-> [l \in LayersOf(recs) |->
                         LayerGaps(by_layer(recs, l), min_start(recs),
                                   max_end(recs))]]

(***************************************************************************)
(* build_stretch_segments                                                  *)
(***************************************************************************)
\* (x // CHUNK_SIZE) * CHUNK_SIZE
ChunkOf(x) == (x \div CHUNK_SIZE) * CHUNK_SIZE

\* c = c_start; while c <= c_end: ...; c += CHUNK_SIZE: the values c takes
RecordChunksExclusive(r) ==
    LET c_start == ChunkOf(r.start)
        c_end   == ChunkOf(r.end)
    IN  [k \in 1..((c_end - c_start) \div CHUNK_SIZE) |->
            c_start + (k - 1) * CHUNK_SIZE]
RecordChunks(r) ==
    LET c_start == ChunkOf(r.start)
        c_end   == ChunkOf(r.end)
    IN  [k \in 1..((c_end - c_start) \div CHUNK_SIZE + 1) |->
            c_start + (k - 1) * CHUNK_SIZE]

\* the segment of record r in chunk c (chunk_label "c-(c+CHUNK_SIZE)" is the
\* pair of the two numbers it prints)
Segment(r, c) ==
    LET seg_start == Max(r.start, c)
        seg_end   == Min(r.end, c + CHUNK_SIZE)
    IN  [chunk_start |-> c,
         chunk_label |-> <<c, c + CHUNK_SIZE>>,
         layer       |-> r.layer,
         rel_start   |-> seg_start - c,
         rel_end     |-> seg_end - c,
         abs_start   |-> seg_start,
         abs_end     |-> seg_end]

\* if seg_start < seg_end: segments.append(..)
SegNonEmpty(sg) == sg.abs_start < sg.abs_end

\* the segments one pass of the for loop appends
RecordSegments(r) ==
    LET cs == RecordChunks(r)
    IN  SelectSeq([k \in 1..Len(cs) |-> Segment(r, cs[k])], SegNonEmpty)

\* key=lambda s: (s["chunk_start"], s["layer"], s["rel_start"])
SegLess(a, b) ==
    \/ a.chunk_start < b.chunk_start
    \/ /\ a.chunk_start = b.chunk_start
       /\ \/ StrLess(a.layer, b.layer)
          \/ a.layer = b.layer /\ a.rel_start < b.rel_start

build_stretch_segments(recs) ==
    LET segs   == Flatten([i \in 1..Len(recs) |-> RecordSegments(recs[i])])
        layers == LayersOf(recs)
        chunks == UNION {{RecordChunks(recs[i])[k] :
                             k \in 1..Len(RecordChunks(recs[i]))} :
                         i \in 1..Len(recs)}
    IN  [segments |-> StableSort(segs,
                          {ij \in (1..Len(segs)) \X (1..Len(segs)) :
                              SegLess(segs[ij[1]], segs[ij[2]])}),
         layers   |-> SortedSet(layers,
                          {xy \in layers \X layers : StrLess(xy[1], xy[2])}),
         chunks   |-> SortedSet(chunks,
                          {xy \in chunks \X chunks : xy[1] < xy[2]})]

(***************************************************************************)
(* filter_records                                                          *)
(***************************************************************************)
\* x in a_list
In(x, s) == \E i \in 1..Len(s) : s[i] = x

\* if filter_bills and r.get("bill") and r["bill"] not in filter_bills: continue
BillRejectsUntagged(r, fb) == fb # <<>> /\ ~In(r.bill, fb)
BillRejects(r, fb) == fb # <<>> /\ r.bill # NoBill /\ ~In(r.bill, fb)

\* if filter_months and r.get("month") and r["month"] not in filter_months: continue
MonthRejects(r, fm) == fm # <<>> /\ r.month # NoMonth /\ ~In(r.month, fm)

filter_records(recs, fb, fm) ==
    SelectSeq(recs, LAMBDA r : ~BillRejects(r, fb) /\ ~MonthRejects(r, fm))

(***************************************************************************)
(* compute_progress                                                        *)
(***************************************************************************)
\* a float is the exact quotient num / den; a / b raises ZeroDivisionError
\* for b = 0
TrueDiv(a, b) == [raised |-> b = 0, num |-> a, den |-> b]

\* (x / route_extent * 100) if route_extent else 0
PctUnguarded(x, extent) == TrueDiv(x * 100, extent)
Pct(x, extent) ==
    IF extent # 0 THEN TrueDiv(x * 100, extent)
    ELSE [raised |-> FALSE, num |-> 0, den |-> 1]

\* key = f"{r['bill']}|{r['layer']}"
MakeKey(bill, layer) == bill \o <<"|">> \o layer

\* bill, layer = key.split("|", 1)
SplitKey(key) ==
    LET i == CHOOSE n \in 1..Len(key) :
                 key[n] = "|" /\ \A m \in 1..(n - 1) : key[m] # "|"
    IN  [bill |-> SubSeq(key, 1, i - 1), layer |-> SubSeq(key, i + 1, Len(key))]

\* by_bill_layer[key] = by_bill_layer.get(key, 0) + v, on a dict that keeps
\* its keys in insertion order
DictAdd(d, key, v) ==
    IF \E i \in 1..Len(d) : d[i].key = key
    THEN [i \in 1..Len(d) |->
             IF d[i].key = key THEN [key |-> key, ln |-> d[i].ln + v] ELSE d[i]]
    ELSE Append(d, [key |-> key, ln |-> v])

RECURSIVE by_bill_layer(_)
by_bill_layer(recs) ==
    IF recs = <<>> THEN <<>>
    ELSE LET r == recs[Len(recs)]
             d == by_bill_layer(SubSeq(recs, 1, Len(recs) - 1))
         IN  IF r.bill # NoBill
             THEN DictAdd(d, MakeKey(r.bill, r.layer), r.end - r.start)
             ELSE d

\* sum(m["end"] - m["start"] for m in merge_intervals(intervals))
RawLen(ivs) == SumSeq([i \in 1..Len(ivs) |-> ivs[i].end - ivs[i].start])
MergedLen(ivs) ==
    LET m == merge_intervals(ivs)
    IN  SumSeq([i \in 1..Len(m) |-> m[i].end - m[i].start])

\* all_intervals = [{"start": r["start"], "end": r["end"]} for r in records]
all_intervals(recs) ==
    [i \in 1..Len(recs) |-> [start |-> recs[i].start, end |-> recs[i].end]]

\* key=lambda x: (x["bill"], x["layer"])
BillLayerLess(a, b) ==
    \/ StrLess(a.bill, b.bill)
    \/ a.bill = b.bill /\ StrLess(a.layer, b.layer)

per_layer_per_bill(recs, extent) ==
    LET d == by_bill_layer(recs)
        entries == [i \in 1..Len(d) |->
                       LET bl == SplitKey(d[i].key)
                       IN  [bill  |-> bl.bill,
                            layer |-> bl.layer,
                            len   |-> d[i].ln,
                            pct   |-> Pct(d[i].ln, extent)]]
    IN  StableSort(entries,
                   {ij \in (1..Len(entries)) \X (1..Len(entries)) :
                       BillLayerLess(entries[ij[1]], entries[ij[2]])})

compute_progress(recs, extent) ==
    LET per_layer == [l \in LayersOf(recs) |->
                         LET total == MergedLen(by_layer(recs, l))
                         IN  [len |-> total, pct |-> Pct(total, extent)]]
        overall_len == MergedLen(all_intervals(recs))
        overall_pct == Pct(overall_len, extent)
        plpb == per_layer_per_bill(recs, extent)
    IN  IF \/ overall_pct.raised
           \/ \E l \in LayersOf(recs) : per_layer[l].pct.raised
           \/ \E k \in 1..Len(plpb) : plpb[k].pct.raised
        THEN [raised |-> TRUE]
        ELSE [raised             |-> FALSE,
              route_extent       |-> extent,
              overall_len        |-> overall_len,
              overall_pct        |-> overall_pct,
              per_layer          |-> per_layer,
              per_layer_per_bill |-> plpb]

(***************************************************************************)
(* Ingestion: parse_stretch and parse_csv.  A str the code takes apart is  *)
(* a sequence of characters.  The content of a CSV file is modelled as     *)
(* pandas hands it over: whether the Item and Stretch columns are there,   *)
(* and the rows, each cell as str(row.iloc[..] or "") gives it.  The files *)
(* of the model have the columns Item, Stretch, Bill and Est Length and no *)
(* Date column, so no record gets a month.                                 *)
(***************************************************************************)
Digits == <<"0", "1", "2", "3", "4", "5", "6", "7", "8", "9">>

IsDigit(c) == \E d \in 1..Len(Digits) : Digits[d] = c
DigitValue(c) == (CHOOSE d \in 1..Len(Digits) : Digits[d] = c) - 1

AllDigits(t) == t # <<>> /\ \A i \in 1..Len(t) : IsDigit(t[i])

\* int(t) of a string of digits
RECURSIVE IntOf(_)
IntOf(t) ==
    IF t = <<>> THEN 0
    ELSE 10 * IntOf(SubSeq(t, 1, Len(t) - 1)) + DigitValue(t[Len(t)])

\* s.strip()
Strip(s) ==
    LET keep == {i \in 1..Len(s) : s[i] # " "}
    IN  IF keep = {} THEN <<>>
        ELSE SubSeq(s, CHOOSE i \in keep : \A j \in keep : i <= j,
                       CHOOSE i \in keep : \A j \in keep : i >= j)

\* the index after the run of digits / of white space that starts at i
RECURSIVE SkipDigits(_, _)
SkipDigits(s, i) ==
    IF i <= Len(s) /\ IsDigit(s[i]) THEN SkipDigits(s, i + 1) ELSE i

RECURSIVE SkipSpaces(_, _)
SkipSpaces(s, i) ==
    IF i <= Len(s) /\ s[i] = " " THEN SkipSpaces(s, i + 1) ELSE i

\* a failed match, an absent value
None == <<>>

\* re.match(r"^(\d+)\s*-\s*(\d+)$", t): the two groups
StretchMatch(t) ==
    LET a == SkipDigits(t, 1)
        b == SkipSpaces(t, a)
        c == SkipSpaces(t, b + 1)
        d == SkipDigits(t, c)
    IN  IF /\ a > 1
           /\ b <= Len(t) /\ t[b] = "-"
           /\ d > c
           /\ d = Len(t) + 1
        THEN <<SubSeq(t, 1, a - 1), SubSeq(t, c, Len(t))>>
        ELSE None

\* return (start, end) if start <= end else None
parse_stretch(s) ==
    IF s = <<>> THEN None
    ELSE LET m == StretchMatch(Strip(s))
         IN  IF m = None THEN None
             ELSE LET start == IntOf(m[1])
                      end   == IntOf(m[2])
                  IN  IF start <= end THEN <<start, end>> ELSE None

\* int(str(.. or "0").replace(",", "")); a ValueError is passed over, which
\* leaves route_extent as a value that is not positive does
EstOf(cell) ==
    LET t == SelectSeq(IF cell = <<>> THEN <<"0">> ELSE cell,
                       LAMBDA ch : ch # ",")
    IN  IF AllDigits(t) THEN IntOf(t) ELSE 0

\* for _, row in df.iterrows(): ..
RECURSIVE ParseRows(_, _, _)
ParseRows(rows, recs, extent) ==
    IF rows = <<>> THEN [records |-> recs, route_extent |-> extent]
    ELSE LET row     == Head(rows)
             item    == Strip(row.item)
             stretch == Strip(row.stretch)
             span    == parse_stretch(stretch)
             bill    == Strip(row.bill)
             rec     == [layer |-> item, start |-> span[1], end |-> span[2],
                         bill |-> IF bill # <<>> THEN bill ELSE NoBill,
                         month |-> NoMonth]
             est     == EstOf(row.est)
         IN  IF item = <<>> \/ stretch = <<>> \/ span = None
             THEN ParseRows(Tail(rows), recs, extent)
             ELSE ParseRows(Tail(rows), Append(recs, rec),
                            IF est > 0 THEN est ELSE extent)

\* if not route_extent and records: max(end) - min(start)
FallbackExtent(recs, extent) ==
    IF extent = 0 /\ recs # <<>> THEN max_end(recs) - min_start(recs)
    ELSE extent

\* route_extent or 8000
OrDefault(extent) == IF extent = 0 THEN DEFAULT_ROUTE_EXTENT ELSE extent

\* return records, route_extent or 8000
Returned(done) ==
    [raised       |-> FALSE,
     records      |-> done.records,
     route_extent |-> OrDefault(FallbackExtent(done.records, done.route_extent))]

\* raises ValueError when the Item or the Stretch column is missing
parse_csv(csv) ==
    IF ~csv.columns THEN [raised |-> TRUE]
    ELSE Returned(ParseRows(csv.rows, <<>>, 0))

(***************************************************************************)
(* Inputs                                                                  *)
(***************************************************************************)
\* parse_stretch hands over (start, end) with start <= end
Spans(maxpos) ==
    {iv \in [start : 0..maxpos, end : 0..maxpos] : iv.start <= iv.end}

\* the stretches of the engine's input contract: 0 <= start < end
ValidSpans(maxpos) == {iv \in Spans(maxpos) : iv.start < iv.end}

\* chainages of the segmenter's input: at, just after and just before the
\* chunk boundaries of chunks 0..MaxChunk
ChunkPoints ==
    {c * CHUNK_SIZE + o : c \in 0..MaxChunk, o \in {0, 1, CHUNK_SIZE - 1}}

ChunkSpans ==
    {iv \in [start : ChunkPoints, end : ChunkPoints] : iv.start <= iv.end}

\* layer and bill names are strings, modelled as sequences of characters
Layers == {<<"L">>, <<"B", "|", "L">>}

Bills == {<<"A">>, <<"A", "|", "B">>}
Months == {"2024-01", "2024-02"}

\* the selections of a multi-select: lists without repetition
Selections(S) ==
    {sel \in SeqsUpTo(S, Cardinality(S)) :
        \A i, j \in 1..Len(sel) : i # j => sel[i] # sel[j]}

RecordsOf(layers, spans, bills, months) ==
    {[layer |-> l, start |-> iv.start, end |-> iv.end, bill |-> b, month |-> m] :
        l \in layers, iv \in spans, b \in bills, m \in months}

\* the inputs a specification does not use
NoIntervals == intervals = <<>>
NoRecords == records = <<>>
NoFilter == filter_bills = <<>> /\ filter_months = <<>>
NoExtent == route_extent = 0

NoSession ==
    /\ frontend = ""
    /\ loaded = FALSE
    /\ ignore_upload = FALSE
    /\ view = ""

NoServer == sessions = <<>>

NoFront ==
    /\ content = <<>>
    /\ parsed = <<>>
    /\ NoSession
    /\ NoServer

NoOutput ==
    /\ merged = <<>>
    /\ overlaps = <<>>
    /\ gaps = <<>>
    /\ stretch_data = <<>>
    /\ filtered = <<>>
    /\ progress = <<>>

(***************************************************************************)
(* Specification of merge_intervals                                        *)
(***************************************************************************)
InitMerge ==
    /\ pc = "init"
    /\ intervals \in SeqsUpTo(Spans(MaxPos), MaxLen)
    /\ NoRecords /\ NoFilter /\ NoExtent
    /\ NoOutput
    /\ NoFront

MergeIntervals ==
    /\ pc = "init"
    /\ pc' = "merge_intervals"
    /\ LET call == merge_intervals_call(intervals)
       IN  /\ merged' = call.result
           /\ intervals' = call.intervals
    /\ UNCHANGED <<records, route_extent, filter_bills, filter_months,
                   overlaps, gaps, stretch_data, filtered, progress,
                   frontVars>>

\* a caller hands the result of merge_intervals to merge_intervals again
MergeAgain ==
    /\ pc = "merge_intervals"
    /\ pc' = "merge_again"
    /\ merged' = merge_intervals(merged)
    /\ UNCHANGED <<intervals, records, route_extent, filter_bills,
                   filter_months, overlaps, gaps, stretch_data, filtered,
                   progress, frontVars>>

NextMerge == MergeIntervals \/ MergeAgain

SpecMerge == InitMerge /\ [][NextMerge]_vars

(***************************************************************************)
(* Specification of the two detectors: find_overlaps_within_layer and      *)
(* find_gaps_per_layer on a list of records                                *)
(***************************************************************************)
Init ==
    /\ pc = "init"
    /\ records \in SeqsUpTo(RecordsOf(Layers, Spans(MaxPos), {NoBill}, {NoMonth}),
                            MaxLen)
    /\ NoIntervals /\ NoFilter /\ NoExtent
    /\ NoOutput
    /\ NoFront

FindOverlaps ==
    /\ pc = "init"
    /\ pc' = "find_overlaps_within_layer"
    /\ overlaps' = find_overlaps_within_layer(records)
    /\ UNCHANGED <<intervals, records, route_extent, filter_bills,
                   filter_months, merged, gaps, stretch_data, filtered,
                   progress, frontVars>>

FindGaps ==
    /\ pc = "init"
    /\ pc' = "find_gaps_per_layer"
    /\ gaps' = find_gaps_per_layer(records)
    /\ UNCHANGED <<intervals, records, route_extent, filter_bills,
                   filter_months, merged, overlaps, stretch_data, filtered,
                   progress, frontVars>>

Next == FindOverlaps \/ FindGaps

Spec == Init /\ [][Next]_vars

(***************************************************************************)
(* Specification of build_stretch_segments                                 *)
(***************************************************************************)
InitSeg ==
    /\ pc = "init"
    /\ records \in SeqsUpTo(RecordsOf(Layers, ChunkSpans, {NoBill}, {NoMonth}),
                            MaxSegRecs)
    /\ NoIntervals /\ NoFilter /\ NoExtent
    /\ NoOutput
    /\ NoFront

BuildStretchSegments ==
    /\ pc = "init"
    /\ pc' = "build_stretch_segments"
    /\ stretch_data' = build_stretch_segments(records)
    /\ UNCHANGED <<intervals, records, route_extent, filter_bills,
                   filter_months, merged, overlaps, gaps, filtered, progress,
                   frontVars>>

NextSeg == BuildStretchSegments

SpecSeg == InitSeg /\ [][NextSeg]_vars

(***************************************************************************)
(* Specification of filter_records                                         *)
(***************************************************************************)
InitFilter ==
    /\ pc = "init"
    /\ records \in SeqsUpTo(RecordsOf(Layers, {[start |-> 0, end |-> 1]},
                                      Bills \cup {NoBill}, Months \cup {NoMonth}),
                            MaxFilterRecs)
    /\ filter_bills \in Selections(Bills)
    /\ filter_months \in Selections(Months)
    /\ NoIntervals /\ NoExtent
    /\ NoOutput
    /\ NoFront

FilterRecords ==
    /\ pc = "init"
    /\ pc' = "filter_records"
    /\ filtered' = filter_records(records, filter_bills, filter_months)
    /\ UNCHANGED <<intervals, records, route_extent, filter_bills,
                   filter_months, merged, overlaps, gaps, stretch_data,
                   progress, frontVars>>

NextFilter == FilterRecords

SpecFilter == InitFilter /\ [][NextFilter]_vars

(***************************************************************************)
(* Specification of compute_progress                                       *)
(***************************************************************************)
InitProgress ==
    /\ pc = "init"
    /\ records \in SeqsUpTo(RecordsOf(Layers, ValidSpans(MaxPos),
                                      Bills \cup {NoBill}, {NoMonth}),
                            MaxProgRecs)
    /\ route_extent \in {0, DEFAULT_ROUTE_EXTENT}
    /\ NoIntervals /\ NoFilter
    /\ NoOutput
    /\ NoFront

ComputeProgress ==
    /\ pc = "init"
    /\ pc' = "compute_progress"
    /\ progress' = compute_progress(records, route_extent)
    /\ UNCHANGED <<intervals, records, route_extent, filter_bills,
                   filter_months, merged, overlaps, gaps, stretch_data,
                   filtered, frontVars>>

NextProgress == ComputeProgress

SpecProgress == InitProgress /\ [][NextProgress]_vars

(***************************************************************************)
(* Specification of the progress of a selection: compute_progress of all   *)
(* records, then of the records filter_records lets pass                   *)
(***************************************************************************)
\* records without tags and records of bill A of January 2024
TaggedRecords ==
    RecordsOf(Layers, ValidSpans(MaxPos), {NoBill}, {NoMonth})
        \cup RecordsOf(Layers, ValidSpans(MaxPos), {<<"A">>}, {"2024-01"})

InitSelection ==
    /\ pc = "init"
    /\ records \in SeqsUpTo(TaggedRecords, MaxProgRecs)
    /\ filter_bills \in {<<>>, <<<<"A", "|", "B">>>>}
    /\ filter_months \in {<<>>, <<"2024-02">>}
    /\ route_extent = DEFAULT_ROUTE_EXTENT
    /\ NoIntervals
    /\ NoOutput
    /\ NoFront

\* records = filter_records(all_records, filter_bills, filter_months);
\* progress_data = compute_progress(records, route_extent)
ProgressOfSelection ==
    /\ pc = "compute_progress"
    /\ pc' = "compute_progress(filter_records)"
    /\ filtered' = filter_records(records, filter_bills, filter_months)
    /\ progress' = compute_progress(filtered', route_extent)
    /\ UNCHANGED <<intervals, records, route_extent, filter_bills,
                   filter_months, merged, overlaps, gaps, stretch_data,
                   frontVars>>

NextSelection == ComputeProgress \/ ProgressOfSelection

SpecSelection == InitSelection /\ [][NextSelection]_vars

(***************************************************************************)
(* Specification of the engine: every engine function applied to one list  *)
(* of records, zero-length records and the empty list included.            *)
(* intervals holds the {"start", "end"} projections of the records.        *)
(***************************************************************************)
InitEngine ==
    /\ pc = "init"
    /\ records \in SeqsUpTo(RecordsOf(Layers, Spans(MaxPos), {NoBill},
                                      {NoMonth}),
                            MaxProgRecs)
    /\ intervals = all_intervals(records)
    /\ route_extent = DEFAULT_ROUTE_EXTENT
    /\ NoFilter
    /\ NoOutput
    /\ NoFront

NextEngine ==
    \/ MergeIntervals
    \/ FindOverlaps
    \/ FindGaps
    \/ BuildStretchSegments
    \/ FilterRecords
    \/ ComputeProgress

SpecEngine == InitEngine /\ [][NextEngine]_vars

(***************************************************************************)
(* Specification of the order of the input: merge_intervals and            *)
(* find_overlaps_within_layer are applied to a list and then to the list   *)
(* with two neighbours exchanged, again and again, so every permutation of *)
(* the list is reached.  intervals holds the {"start", "end"} projections  *)
(* of the records, as compute_progress passes them to merge_intervals.     *)
(***************************************************************************)
SwapAt(s, i) ==
    [k \in 1..Len(s) |-> IF k = i THEN s[i + 1]
                          ELSE IF k = i + 1 THEN s[i]
                          ELSE s[k]]

InitOrder ==
    /\ pc = "init"
    /\ records \in SeqsUpTo(RecordsOf(Layers, ValidSpans(MaxPos), {NoBill},
                                      {NoMonth}),
                            MaxLen)
    /\ intervals = all_intervals(records)
    /\ NoFilter /\ NoExtent
    /\ NoOutput
    /\ NoFront

ReorderMerge ==
    /\ pc = "merge_intervals"
    /\ \E i \in 1..(Len(records) - 1) :
          /\ records' = SwapAt(records, i)
          /\ intervals' = all_intervals(records')
          /\ merged' = merge_intervals(intervals')
    /\ UNCHANGED <<pc, route_extent, filter_bills, filter_months, overlaps,
                   gaps, stretch_data, filtered, progress, frontVars>>

ReorderOverlaps ==
    /\ pc = "find_overlaps_within_layer"
    /\ \E i \in 1..(Len(records) - 1) :
          /\ records' = SwapAt(records, i)
          /\ intervals' = all_intervals(records')
          /\ overlaps' = find_overlaps_within_layer(records')
    /\ UNCHANGED <<pc, route_extent, filter_bills, filter_months, merged,
                   gaps, stretch_data, filtered, progress, frontVars>>

NextOrder == MergeIntervals \/ FindOverlaps \/ ReorderMerge \/ ReorderOverlaps

SpecOrder == InitOrder /\ [][NextOrder]_vars

(***************************************************************************)
(* Specification of ingestion: parse_csv on the content of a file          *)
(***************************************************************************)
\* str(n)
RECURSIVE IntText(_)
IntText(n) ==
    IF n < 10 THEN <<Digits[n + 1]>>
    ELSE IntText(n \div 10) \o <<Digits[(n % 10) + 1]>>

\* Stretch cells: "a-b" for all chainages a, b of the model, and cells with
\* white space, with numbers of two digits, and without a match
StretchTexts ==
    {IntText(a) \o <<"-">> \o IntText(b) : a, b \in 0..MaxPos}
    \cup {<<" ", "1", " ", "-", " ", "2", " ">>,
          <<"1", "0", "-", "1", "2">>,
          <<"1", "-">>, <<"-", "1">>, <<"1", " ", "2">>, <<"x">>, <<>>}

\* rows of layer L with and without a positive Est Length, a row without
\* an item, and a row whose Est Length is not a number
CsvRows ==
    [item : {<<"L">>}, stretch : StretchTexts, bill : {<<>>},
     est : {<<"0">>, <<"5">>}]
    \cup {[item |-> <<" ">>, stretch |-> <<"0", "-", "1">>, bill |-> <<>>,
           est |-> <<"5">>],
          [item |-> <<"L">>, stretch |-> <<"0", "-", "2">>, bill |-> <<"A">>,
           est |-> <<"x">>]}

CsvContents ==
    {[columns |-> TRUE, rows |-> rows] : rows \in SeqsUpTo(CsvRows, MaxRows)}
    \cup {[columns |-> FALSE, rows |-> <<>>]}

InitParse ==
    /\ pc = "init"
    /\ content \in CsvContents
    /\ parsed = <<>>
    /\ NoIntervals /\ NoRecords /\ NoFilter /\ NoExtent
    /\ NoOutput
    /\ NoSession /\ NoServer

ParseCsv ==
    /\ pc = "init"
    /\ pc' = "parse_csv"
    /\ parsed' = parse_csv(content)
    /\ UNCHANGED <<content, intervals, records, route_extent, filter_bills,
                   filter_months, merged, overlaps, gaps, stretch_data,
                   filtered, progress, sessionVars, serverVars>>

NextParse == ParseCsv

SpecParse == InitParse /\ [][NextParse]_vars

(***************************************************************************)
(* Sessions of the two front ends.  A session holds the full record list   *)
(* and the route extent (Dash: records-store; Streamlit: st.session_state) *)
(* in records and route_extent, with loaded telling whether a record list  *)
(* is held at all; content is the file in the upload widget; parsed is     *)
(* what parse_csv returned for the dataset of the last load or upload      *)
(* event;                                                                  *)
(* filter_bills and filter_months are the values of the two filter         *)
(* widgets; stretch_data, overlaps, gaps and progress are what the page    *)
(* shows, filtered is the list handed to compute_progress, and view tells  *)
(* whether the page shows results, an error or the hint to load data.  pc  *)
(* names the last event.                                                   *)
(***************************************************************************)
CsvRow(item, stretch, bill, est) ==
    [item |-> item, stretch |-> stretch, bill |-> bill, est |-> est]

\* two files with records, one without a valid stretch, one without the
\* Item and Stretch columns
FileOne ==
    [columns |-> TRUE,
     rows |-> <<CsvRow(<<"L">>, <<"0", "-", "2">>, <<"A">>, <<"0">>),
                CsvRow(<<"L">>, <<"1", "-", "3">>, <<"B">>, <<"0">>)>>]

FileTwo ==
    [columns |-> TRUE,
     rows |-> <<CsvRow(<<"L">>, <<"0", "-", "1">>, <<"A">>, <<"5">>),
                CsvRow(<<"B", "|", "L">>, <<"2", "-", "3">>, <<>>, <<"5">>)>>]

FileNoRows ==
    [columns |-> TRUE,
     rows |-> <<CsvRow(<<"L">>, <<"x">>, <<"A">>, <<"0">>)>>]

FileNoColumns == [columns |-> FALSE, rows |-> <<>>]

\* sorted(Path(__file__).parent.glob("*.csv")) and its first file
DATA_FILES == <<FileOne, FileTwo>>
DEFAULT_DATA_FILE == DATA_FILES[1]

\* the files a user uploads; no file in the upload widget
Uploads == {FileTwo, FileNoRows, FileNoColumns}
NoUpload == <<>>

\* set(r.get("bill") for r in all_records if r.get("bill")): the options of
\* the Bill No filter
BillsOf(recs) ==
    {recs[i].bill : i \in {j \in 1..Len(recs) : recs[j].bill # NoBill}}

\* the list the three analysis functions are called with
AnalysisInputFiltered(all_records, recs) == recs
AnalysisInput(all_records, recs) == all_records

\* a rendering that stores the new record list with the route extent the
\* session held before
RenderStaleExtent(all_records, recs, extent) ==
    /\ stretch_data' = build_stretch_segments(all_records)
    /\ overlaps' = find_overlaps_within_layer(all_records)
    /\ gaps' = find_gaps_per_layer(all_records)
    /\ filtered' = recs
    /\ progress' = compute_progress(recs, extent)
    /\ records' = all_records
    /\ route_extent' = route_extent
    /\ view' = "results"

\* stretch_data, overlaps_within, gaps, progress_data of one rendering, and
\* the record list and route extent the session holds after it
Render(all_records, recs, extent) ==
    /\ stretch_data' = build_stretch_segments(AnalysisInput(all_records, recs))
    /\ overlaps' = find_overlaps_within_layer(AnalysisInput(all_records, recs))
    /\ gaps' = find_gaps_per_layer(AnalysisInput(all_records, recs))
    /\ filtered' = recs
    /\ progress' = compute_progress(recs, extent)
    /\ records' = all_records
    /\ route_extent' = extent
    /\ view' = "results"

\* a page without results
Cleared(v) ==
    /\ stretch_data' = <<>>
    /\ overlaps' = <<>>
    /\ gaps' = <<>>
    /\ filtered' = <<>>
    /\ progress' = <<>>
    /\ view' = v

InitSession ==
    /\ pc = "init"
    /\ frontend \in {"dash", "streamlit"}
    /\ loaded = FALSE
    /\ ignore_upload = FALSE
    /\ view = ""
    /\ content = NoUpload
    /\ parsed = <<>>
    /\ records = <<>>
    /\ route_extent = DEFAULT_ROUTE_EXTENT
    /\ NoIntervals /\ NoFilter
    /\ NoOutput
    /\ NoServer

(***************************************************************************)
(* Dash: the callback process_upload, one action per triggering input      *)
(***************************************************************************)
\* the branch of a load or an upload: parse_csv(text), then either the
\* error page with an empty records-store and empty filter values, or the
\* results for all records with the filter values as they were
DashIngest(text) ==
    \E p \in {parse_csv(text)} :
        /\ parsed' = p
        /\ IF p.raised \/ p.records = <<>>
           THEN /\ Cleared("error")
                /\ records' = <<>>
                /\ route_extent' = DEFAULT_ROUTE_EXTENT
                /\ loaded' = FALSE
                /\ filter_bills' = <<>>
                /\ filter_months' = <<>>
           ELSE /\ Render(p.records, p.records, p.route_extent)
                /\ loaded' = TRUE
                /\ UNCHANGED <<filter_bills, filter_months>>

\* url.pathname fires when the page has loaded: the default data file
DashPageLoad ==
    /\ frontend = "dash"
    /\ pc = "init"
    /\ pc' = "url.pathname"
    /\ DashIngest(DEFAULT_DATA_FILE)
    /\ UNCHANGED <<intervals, merged, content, frontend, ignore_upload,
                   serverVars>>

\* the Load data file button with a file selected in the dropdown
DashLoadSample ==
    /\ frontend = "dash"
    /\ pc # "init"
    /\ pc' = "load-sample"
    /\ \E selected_file \in 1..Len(DATA_FILES) :
          DashIngest(DATA_FILES[selected_file])
    /\ UNCHANGED <<intervals, merged, content, frontend, ignore_upload,
                   serverVars>>

\* a file dropped on the upload area
DashUpload ==
    /\ frontend = "dash"
    /\ pc # "init"
    /\ pc' = "upload-data.contents"
    /\ \E contents \in Uploads :
          /\ content' = contents
          /\ DashIngest(contents)
    /\ UNCHANGED <<intervals, merged, frontend, ignore_upload, serverVars>>

\* the user changes the value of the Bill No dropdown; the dropdown is a
\* State of the callback, so nothing is computed
DashSelectFilter ==
    /\ frontend = "dash"
    /\ view = "results"
    /\ pc' = "filter-bill.value"
    /\ \E sel \in Selections(BillsOf(records)) :
          /\ sel # filter_bills
          /\ filter_bills' = sel
    /\ UNCHANGED <<intervals, records, route_extent, filter_months, merged,
                   overlaps, gaps, stretch_data, filtered, progress, content,
                   parsed, sessionVars, serverVars>>

\* the Apply button; when an engine function raises, Dash updates no output
DashApply ==
    /\ frontend = "dash"
    /\ pc # "init"
    /\ pc' = "apply-progress-filter"
    /\ \E recs \in {filter_records(records, filter_bills, filter_months)} :
          IF find_gaps_per_layer(AnalysisInput(records, recs)).raised
          THEN UNCHANGED <<records, route_extent, overlaps, gaps,
                           stretch_data, filtered, progress, view>>
          ELSE Render(records, recs, route_extent)
    /\ UNCHANGED <<intervals, filter_bills, filter_months, merged, content,
                   parsed, frontend, loaded, ignore_upload, serverVars>>

(***************************************************************************)
(* Streamlit: the script of app_streamlit.py, run from the top on every    *)
(* event.  st holds st.session_state; clicked tells whether this run is    *)
(* the one of a click on Load data file.  The result is the session state *)
(* and what the page shows.                                                *)
(***************************************************************************)
Loaded(p, ignore) ==
    [records |-> p.records, route_extent |-> p.route_extent, loaded |-> TRUE,
     ignore_upload |-> ignore]

\* all_records = st.session_state.records; if not all_records: st.info(..)
Shown(st) ==
    [st |-> st, view |-> IF st.records = <<>> THEN "info" ELSE "results"]

\* the upload is read: st.error(..) and st.stop() when parse_csv raises
ReadUpload(st, up) ==
    IF up.raised THEN [st |-> st, view |-> "error"]
    ELSE Shown(Loaded(up, FALSE))

\* if uploaded_file and not st.session_state.ignore_upload: ..;
\* st.session_state.ignore_upload = False
AfterButtons(st, uploaded_file) ==
    IF uploaded_file # NoUpload /\ ~st.ignore_upload
    THEN ReadUpload(st, parse_csv(uploaded_file))
    ELSE Shown([st EXCEPT !.ignore_upload = FALSE])

\* the click on Load data file: with the file parsed, ignore_upload = True
\* and st.rerun(), a run without click that holds records; else st.error(..)
Clicked(st, picked, uploaded_file) ==
    IF ~picked.raised THEN AfterButtons(Loaded(picked, TRUE), uploaded_file)
    ELSE AfterButtons(st, uploaded_file)

Buttons(st, clicked, selected, uploaded_file) ==
    IF clicked THEN Clicked(st, parse_csv(selected), uploaded_file)
    ELSE AfterButtons(st, uploaded_file)

\* the default data file on the first visit: with the file parsed,
\* st.rerun(), a run without click that holds records; else pass
FirstVisit(st, first, clicked, selected, uploaded_file) ==
    IF ~first.raised
    THEN AfterButtons(Loaded(first, st.ignore_upload), uploaded_file)
    ELSE Buttons(st, clicked, selected, uploaded_file)

RunScript(st, clicked, selected, uploaded_file) ==
    IF ~st.loaded
    THEN FirstVisit(st, parse_csv(DEFAULT_DATA_FILE), clicked, selected,
                    uploaded_file)
    ELSE Buttons(st, clicked, selected, uploaded_file)

\* one event: the script runs with the file of the upload widget and with
\* sel, the value of the Bill No multiselect; a multiselect with other
\* options, or one that the page did not show, is a new widget with the
\* default value []
StRun(clicked, selected, uploaded_file, sel) ==
    \E run \in {RunScript([records |-> records, route_extent |-> route_extent,
                           loaded |-> loaded, ignore_upload |-> ignore_upload],
                          clicked, selected, uploaded_file)} :
    \E chosen \in {IF view = "results" /\ BillsOf(run.st.records) = BillsOf(records)
                    THEN sel ELSE <<>>} :
    \E recs \in {filter_records(run.st.records, chosen, <<>>)} :
        /\ loaded' = run.st.loaded
        /\ ignore_upload' = run.st.ignore_upload
        /\ content' = uploaded_file
        /\ filter_months' = <<>>
        /\ IF run.view = "results"
           THEN /\ filter_bills' = chosen
                /\ Render(run.st.records, recs, run.st.route_extent)
           ELSE /\ filter_bills' = <<>>
                /\ Cleared(run.view)
                /\ records' = run.st.records
                /\ route_extent' = run.st.route_extent
        /\ UNCHANGED <<intervals, merged, frontend, serverVars>>

StFirstVisit ==
    /\ frontend = "streamlit"
    /\ pc = "init"
    /\ pc' = "first visit"
    /\ StRun(FALSE, DEFAULT_DATA_FILE, NoUpload, <<>>)
    /\ parsed' = parse_csv(DEFAULT_DATA_FILE)

\* the button Load data file with a file of the selectbox
StLoadDataFile ==
    /\ frontend = "streamlit"
    /\ pc # "init"
    /\ pc' = "Load data file"
    /\ \E selected \in 1..Len(DATA_FILES) :
          /\ StRun(TRUE, DATA_FILES[selected], content, filter_bills)
          /\ parsed' = parse_csv(DATA_FILES[selected])

\* a file put into the upload widget
StUpload ==
    /\ frontend = "streamlit"
    /\ pc # "init"
    /\ pc' = "Upload CSV"
    /\ \E uploaded_file \in Uploads :
          /\ StRun(FALSE, DEFAULT_DATA_FILE, uploaded_file, filter_bills)
          /\ parsed' = parse_csv(uploaded_file)

\* the user changes the value of the Bill No multiselect
StSelectFilter ==
    /\ frontend = "streamlit"
    /\ view = "results"
    /\ pc' = "Bill No"
    /\ \E sel \in Selections(BillsOf(records)) :
          /\ sel # filter_bills
          /\ StRun(FALSE, DEFAULT_DATA_FILE, content, sel)
    /\ UNCHANGED parsed

\* any other rerun of the page
StRerun ==
    /\ frontend = "streamlit"
    /\ pc # "init"
    /\ pc' = "rerun"
    /\ StRun(FALSE, DEFAULT_DATA_FILE, content, filter_bills)
    /\ UNCHANGED parsed

NextSession ==
    \/ DashPageLoad
    \/ DashLoadSample
    \/ DashUpload
    \/ DashSelectFilter
    \/ DashApply
    \/ StFirstVisit
    \/ StLoadDataFile
    \/ StUpload
    \/ StSelectFilter
    \/ StRerun

SpecSession == InitSession /\ [][NextSession]_vars

(***************************************************************************)
(* Several sessions served by one hosting front end.  What a session holds *)
(* lives where the code puts it: for Dash in the page of the session (the  *)
(* dcc.Store records-store and the values of the components, which reach   *)
(* the callback as State and Input and leave it as Output), for Streamlit  *)
(* in the st.session_state and the widgets of the session.  The process    *)
(* keeps no record list, route extent or selection in a module-level name. *)
(* The session variables above are those of the session whose event is     *)
(* handled; sessions holds the other sessions as their last events left    *)
(* them.                                                                   *)
(***************************************************************************)
\* a value of the session, were it kept in a module-level name of the
\* process: the one the last event left there, whichever session it was of
ProcessData(own, process) == process
\* a value of the session as the code keeps it: in the session's own place
SessionData(own, process) == own

\* what the served session holds and shows; visited tells whether its page
\* was loaded
ThisSession ==
    [visited |-> pc # "init", records |-> records,
     route_extent |-> route_extent,
     filter_bills |-> filter_bills, filter_months |-> filter_months,
     overlaps |-> overlaps, gaps |-> gaps, stretch_data |-> stretch_data,
     filtered |-> filtered, progress |-> progress, content |-> content,
     parsed |-> parsed, loaded |-> loaded, ignore_upload |-> ignore_upload,
     view |-> view]

InitSessions ==
    /\ pc = "init"
    /\ frontend \in {"dash", "streamlit"}
    /\ loaded = FALSE
    /\ ignore_upload = FALSE
    /\ view = ""
    /\ content = NoUpload
    /\ parsed = <<>>
    /\ records = <<>>
    /\ route_extent = DEFAULT_ROUTE_EXTENT
    /\ NoIntervals /\ NoFilter
    /\ NoOutput
    /\ sessions = [s \in 1..(NumSessions - 1) |-> ThisSession]

\* the next event the front end handles is one of another session
ServeOther ==
    \E s \in 1..Len(sessions) :
    \E held \in {sessions[s]} :
        /\ sessions' = [sessions EXCEPT ![s] = ThisSession]
        /\ pc' = IF held.visited THEN "serve" ELSE "init"
        /\ records' = SessionData(held.records, records)
        /\ route_extent' = SessionData(held.route_extent, route_extent)
        /\ filter_bills' = SessionData(held.filter_bills, filter_bills)
        /\ filter_months' = SessionData(held.filter_months, filter_months)
        /\ overlaps' = held.overlaps
        /\ gaps' = held.gaps
        /\ stretch_data' = held.stretch_data
        /\ filtered' = held.filtered
        /\ progress' = held.progress
        /\ content' = held.content
        /\ parsed' = held.parsed
        /\ loaded' = SessionData(held.loaded, loaded)
        /\ ignore_upload' = SessionData(held.ignore_upload, ignore_upload)
        /\ view' = held.view
        /\ UNCHANGED <<intervals, merged, frontend>>

NextSessions ==
    \/ DashPageLoad
    \/ DashLoadSample
    \/ DashUpload
    \/ DashSelectFilter
    \/ DashApply
    \/ StFirstVisit
    \/ StLoadDataFile
    \/ StUpload
    \/ StSelectFilter
    \/ StRerun
    \/ ServeOther

SpecSessions == InitSessions /\ [][NextSessions]_vars

(***************************************************************************)
(* Notions the claims are stated in                                        *)
(***************************************************************************)
\* every interval of the list has start < end
Valid(ivs) == \A i \in 1..Len(ivs) : ivs[i].start < ivs[i].end

\* position p lies in [start, end) of some interval of the list
Covers(ivs, p) == \E i \in 1..Len(ivs) : ivs[i].start <= p /\ p < ivs[i].end

\* summed length of a list of intervals
TotalLen(ivs) == SumSeq([i \in 1..Len(ivs) |-> ivs[i].end - ivs[i].start])

\* two intervals share at least one position
Overlap(a, b) == Max(a.start, b.start) < Min(a.end, b.end)

\* how many intervals of the list contain position p
CoverCount(ivs, p) ==
    Cardinality({i \in 1..Len(ivs) : ivs[i].start <= p /\ p < ivs[i].end})

\* least start and greatest end over all records of every layer
LeastStart(recs) ==
    CHOOSE m \in 0..MaxPos :
        /\ \E i \in 1..Len(recs) : recs[i].start = m
        /\ \A i \in 1..Len(recs) : recs[i].start >= m

GreatestEnd(recs) ==
    CHOOSE m \in 0..MaxPos :
        /\ \E i \in 1..Len(recs) : recs[i].end = m
        /\ \A i \in 1..Len(recs) : recs[i].end <= m

\* the records of one layer
OfLayer(recs, l) == SelectSeq(recs, LAMBDA r : r.layer = l)

PairwiseNonOverlapping(ivs) ==
    \A i, j \in 1..Len(ivs) : i < j => ~Overlap(ivs[i], ivs[j])

(***************************************************************************)
(* Claims about merge_intervals (SpecMerge)                                *)
(***************************************************************************)
\* C1: for every list X of intervals with start < end, merge_intervals(X) is
\* sorted ascending by start and every adjacent pair satisfies
\* result[i].end < result[i+1].start strictly.
C1_MergeSortedDisjoint ==
    (pc = "merge_intervals" /\ Valid(intervals)) =>
        \A i \in 1..(Len(merged) - 1) :
            /\ merged[i].start < merged[i + 1].start
            /\ merged[i].end < merged[i + 1].start

\* three valid inputs, two of them merged, two outputs left to compare
C1_Witness ==
    /\ pc = "merge_intervals"
    /\ Valid(intervals)
    /\ Len(intervals) = 3
    /\ Len(merged) = 2

\* C2: merge_intervals preserves coverage: a position is covered by some
\* interval of merge_intervals(X) iff it is covered by some interval of X, and
\* two touching inputs [a,b), [b,c) come out as the single interval [a,c).
C2_MergeCoverage ==
    (pc = "merge_intervals" /\ Valid(intervals)) =>
        /\ \A p \in 0..MaxPos : Covers(merged, p) <=> Covers(intervals, p)
        /\ (Len(intervals) = 2 /\ intervals[1].end = intervals[2].start) =>
               merged = <<[start |-> intervals[1].start,
                           end |-> intervals[2].end]>>

\* the touching pair [0,1), [1,2) was merged
C2_Witness ==
    /\ pc = "merge_intervals"
    /\ intervals = <<[start |-> 0, end |-> 1], [start |-> 1, end |-> 2]>>
    /\ merged = <<[start |-> 0, end |-> 2]>>

\* C10: the summed length of merge_intervals(X) is at most the summed length
\* of X, with equality iff the intervals of X are pairwise non-overlapping
\* (touching intervals do not overlap).
C10_CoverageConservation ==
    (pc = "merge_intervals" /\ Valid(intervals)) =>
        /\ TotalLen(merged) <= TotalLen(intervals)
        /\ (TotalLen(merged) = TotalLen(intervals)
               <=> PairwiseNonOverlapping(intervals))

\* overlapping inputs lost length in the merge
C10_Witness ==
    /\ pc = "merge_intervals"
    /\ Valid(intervals)
    /\ Len(intervals) = 3
    /\ ~PairwiseNonOverlapping(intervals)
    /\ TotalLen(merged) < TotalLen(intervals)

(***************************************************************************)
(* Claims about the detectors (Spec)                                       *)
(***************************************************************************)
\* C3: for every layer present, the layer's merged coverage C and the gaps G
\* that find_gaps_per_layer returns for it exactly tile [min_start, max_end),
\* the least start and greatest end over ALL records: every position of the
\* range lies in exactly one interval of C or G, no gap lies outside the range
\* and every gap has len = end - start > 0.
C3_GapsTileRange ==
    (pc = "find_gaps_per_layer" /\ records # <<>> /\ Valid(records)) =>
        /\ ~gaps.raised
        /\ DOMAIN gaps.result = LayersOf(records)
        /\ \A l \in LayersOf(records) :
              LET C  == merge_intervals(by_layer(records, l))
                  G  == gaps.result[l]
                  lo == LeastStart(records)
                  hi == GreatestEnd(records)
              IN  /\ \A p \in lo..(hi - 1) :
                         CoverCount(C, p) + CoverCount(G, p) = 1
                  /\ \A k \in 1..Len(G) :
                         /\ lo <= G[k].start
                         /\ G[k].start < G[k].end
                         /\ G[k].end <= hi
                         /\ G[k].len = G[k].end - G[k].start

\* a layer that reaches neither dataset-wide bound: it gets a leading and a
\* trailing gap
C3_Witness ==
    /\ pc = "find_gaps_per_layer"
    /\ Valid(records)
    /\ \E l \in LayersOf(records) :
          /\ Len(gaps.result[l]) = 2
          /\ gaps.result[l][1].start = LeastStart(records)
          /\ gaps.result[l][2].end = GreatestEnd(records)
          /\ \A i \in 1..Len(records) :
                records[i].layer = l =>
                    /\ records[i].start > LeastStart(records)
                    /\ records[i].end < GreatestEnd(records)

\* C4: for every layer, find_overlaps_within_layer returns the merged (sorted,
\* strictly separated) intersections of the layer's record pairs: each entry
\* has len = end - start > 0, a position is inside some reported overlap of the
\* layer iff at least two records of that layer cover it (records of other
\* layers never contribute), and a layer whose records are pairwise disjoint
\* gets the empty sequence.
C4_OverlapsWithinLayer ==
    pc = "find_overlaps_within_layer" =>
        /\ DOMAIN overlaps = LayersOf(records)
        /\ \A l \in LayersOf(records) :
              LET O == overlaps[l]
                  R == OfLayer(records, l)
              IN  /\ \A k \in 1..Len(O) :
                         O[k].len = O[k].end - O[k].start /\ O[k].len > 0
                  /\ \A k \in 1..(Len(O) - 1) : O[k].end < O[k + 1].start
                  /\ \A p \in 0..MaxPos : Covers(O, p) <=> CoverCount(R, p) >= 2
                  /\ PairwiseNonOverlapping(R) => O = <<>>

\* two layers whose records overlap each other; one layer overlaps itself,
\* the other does not
C4_Witness ==
    /\ pc = "find_overlaps_within_layer"
    /\ \E l, m \in LayersOf(records) :
          /\ l # m
          /\ overlaps[l] # <<>>
          /\ overlaps[m] = <<>>
          /\ \E i, j \in 1..Len(records) :
                /\ records[i].layer = l
                /\ records[j].layer = m
                /\ Overlap(records[i], records[j])

(***************************************************************************)
(* Claims about build_stretch_segments (SpecSeg)                           *)
(***************************************************************************)
\* how often segment sg occurs in the list
Occurrences(segs, sg) == Cardinality({k \in 1..Len(segs) : segs[k] = sg})

\* C5: for every record [start,end) with 0 <= start < end, the segments
\* build_stretch_segments emits for it have absolute ranges that are pairwise
\* disjoint, whose union is exactly [start,end), and that are cut at every
\* multiple of CHUNK_SIZE strictly inside the range and nowhere else; each
\* segment lies inside its own chunk, with rel_start = abs_start - chunk_start
\* and rel_end = abs_end - chunk_start, so 0 <= rel_start < rel_end <= 1000.
\* The segments returned are those of all the records and no others.
C5_SegmentsPartitionRecord ==
    pc = "build_stretch_segments" =>
        /\ \A i \in 1..Len(records) :
              \A r \in {records[i]} : \A S \in {RecordSegments(r)} :
                  (0 <= r.start /\ r.start < r.end) =>
                  /\ \A k, n \in 1..Len(S) :
                         k # n => \/ S[k].abs_end <= S[n].abs_start
                                  \/ S[n].abs_end <= S[k].abs_start
                  /\ \A p \in r.start..(r.end - 1) :
                         \E k \in 1..Len(S) :
                             S[k].abs_start <= p /\ p < S[k].abs_end
                  /\ \A k \in 1..Len(S) :
                         /\ r.start <= S[k].abs_start
                         /\ S[k].abs_start < S[k].abs_end
                         /\ S[k].abs_end <= r.end
                         /\ S[k].layer = r.layer
                         /\ S[k].chunk_start % CHUNK_SIZE = 0
                         /\ S[k].chunk_start <= S[k].abs_start
                         /\ S[k].abs_end <= S[k].chunk_start + CHUNK_SIZE
                         /\ S[k].rel_start = S[k].abs_start - S[k].chunk_start
                         /\ S[k].rel_end = S[k].abs_end - S[k].chunk_start
                         /\ 0 <= S[k].rel_start
                         /\ S[k].rel_start < S[k].rel_end
                         /\ S[k].rel_end <= 1000
                  /\ {S[k].abs_start : k \in 1..Len(S)} \ {r.start}
                         = {m \in {c * CHUNK_SIZE : c \in 0..(r.end \div CHUNK_SIZE)} :
                                r.start < m /\ m < r.end}
                  /\ \A k \in 1..Len(S) :
                         Occurrences(stretch_data.segments, S[k]) >= 1
        /\ Len(stretch_data.segments)
               = SumSeq([i \in 1..Len(records) |-> Len(RecordSegments(records[i]))])
        /\ Len(records) = 1 =>
               stretch_data.segments = RecordSegments(records[1])

\* a record crossing two chunk boundaries came out as three segments
C5_Witness ==
    /\ pc = "build_stretch_segments"
    /\ Len(records) = 1
    /\ records[1].start = 1
    /\ records[1].end = 2 * CHUNK_SIZE + 1
    /\ Len(stretch_data.segments) = 3

(***************************************************************************)
(* Claim about filter_records (SpecFilter)                                 *)
(***************************************************************************)
\* the filtering contract: the tag is absent, or the filter list is empty, or
\* the tag is a member of the list, on both axes
Passes(r, fb, fm) ==
    /\ fb = <<>> \/ r.bill = NoBill \/ \E i \in 1..Len(fb) : fb[i] = r.bill
    /\ fm = <<>> \/ r.month = NoMonth \/ \E i \in 1..Len(fm) : fm[i] = r.month

\* the k-th smallest element of a set of indices
KthOf(I, k) == CHOOSE i \in I : Cardinality({j \in I : j < i}) = k - 1

\* C8: filter_records(records, bills, months) returns, in their original
\* order, exactly the records whose bill passes (bills empty, or no bill tag,
\* or bill in bills) and whose month passes likewise; so a one-bill filter
\* drops every record with another bill and keeps every record without a bill
\* tag, and two empty filter lists return all records.
C8_FilterContract ==
    pc = "filter_records" =>
        \A I \in {{i \in 1..Len(records) :
                      Passes(records[i], filter_bills, filter_months)}} :
            /\ Len(filtered) = Cardinality(I)
            /\ \A k \in 1..Len(filtered) : filtered[k] = records[KthOf(I, k)]
            /\ (filter_bills = <<>> /\ filter_months = <<>>) => filtered = records
            /\ (Len(filter_bills) = 1 /\ filter_months = <<>>) =>
                   \A i \in 1..Len(records) :
                       /\ records[i].bill = NoBill => i \in I
                       /\ records[i].bill \notin {NoBill, filter_bills[1]} =>
                              i \notin I

\* filtering by one bill dropped the record of the other bill and kept the
\* record without a bill tag
C8_Witness ==
    /\ pc = "filter_records"
    /\ filter_bills = << <<"A">> >>
    /\ filter_months = <<>>
    /\ Len(records) = 2
    /\ records[1].bill = <<"A", "|", "B">>
    /\ records[2].bill = NoBill
    /\ filtered = <<records[2]>>

(***************************************************************************)
(* Claims about compute_progress (SpecProgress)                            *)
(***************************************************************************)
\* number of unit positions covered by at least one record of the list
CoveredUnits(recs) == Cardinality({p \in 0..MaxPos : Covers(recs, p)})

\* the distinct (bill, layer) pairs of the records carrying a bill tag
BillLayerPairs(recs) ==
    {<<recs[i].bill, recs[i].layer>> :
        i \in {j \in 1..Len(recs) : recs[j].bill # NoBill}}

\* summed raw length of the records with the given bill and layer
RawLenOfPair(recs, bill, layer) ==
    TotalLen(SelectSeq(recs, LAMBDA r : r.bill = bill /\ r.layer = layer))

\* C6: compute_progress reports physical coverage: per_layer has an entry for
\* exactly the layers present, per_layer[l].len is the number of unit
\* positions covered by at least one record of layer l, and overall_len is
\* the number of unit positions covered by at least one record of any layer.
C6_PhysicalCoverage ==
    pc = "compute_progress" =>
        /\ ~progress.raised
        /\ DOMAIN progress.per_layer = LayersOf(records)
        /\ \A l \in LayersOf(records) :
              progress.per_layer[l].len = CoveredUnits(OfLayer(records, l))
        /\ progress.overall_len = CoveredUnits(records)

\* two layers covering common ground: overall_len is less than the sum of the
\* per-layer lengths
C6_Witness ==
    /\ pc = "compute_progress"
    /\ Cardinality(LayersOf(records)) = 2
    /\ \E l, m \in LayersOf(records) :
          /\ l # m
          /\ progress.overall_len
                 < progress.per_layer[l].len + progress.per_layer[m].len

\* C7: per_layer_per_bill contains exactly one entry for each distinct
\* (bill, layer) pair among the records carrying a bill tag, whatever
\* characters the names contain; the entry's bill and layer equal that pair,
\* its len is the sum of raw (end - start) over the records with that pair,
\* and the entries are ordered ascending by (bill, layer).
C7_PerBillLayerEntries ==
    pc = "compute_progress" =>
        \A P \in {progress.per_layer_per_bill} :
            /\ Len(P) = Cardinality(BillLayerPairs(records))
            /\ {<<P[k].bill, P[k].layer>> : k \in 1..Len(P)}
                   = BillLayerPairs(records)
            /\ \A k \in 1..Len(P) :
                   P[k].len = RawLenOfPair(records, P[k].bill, P[k].layer)
            /\ \A k \in 1..(Len(P) - 1) :
                   \/ StrLess(P[k].bill, P[k + 1].bill)
                   \/ /\ P[k].bill = P[k + 1].bill
                      /\ StrLess(P[k].layer, P[k + 1].layer)

\* C9: with route_extent = 0 compute_progress completes without an arithmetic
\* error and every pct of the result (overall, per layer, per bill and layer)
\* is 0.
C9_ZeroExtentZeroPct ==
    (pc = "compute_progress" /\ route_extent = 0) =>
        /\ ~progress.raised
        /\ progress.overall_pct.num = 0
        /\ \A l \in DOMAIN progress.per_layer :
              progress.per_layer[l].pct.num = 0
        /\ \A k \in 1..Len(progress.per_layer_per_bill) :
              progress.per_layer_per_bill[k].pct.num = 0

\* extent 0 with covered ground and a billed record: all three kinds of pct
\* were computed
C9_Witness ==
    /\ pc = "compute_progress"
    /\ route_extent = 0
    /\ ~progress.raised
    /\ progress.overall_len > 0
    /\ Len(progress.per_layer_per_bill) > 0

(***************************************************************************)
(* C11: merging is idempotent: merge_intervals applied to a result of      *)
(* merge_intervals returns that result unchanged, and the result for the   *)
(* empty list is the empty list.                                           *)
(***************************************************************************)
C11_MergeIdempotent ==
    [][ /\ (pc = "merge_intervals" /\ pc' = "merge_again") => merged' = merged
        /\ (pc' = "merge_intervals" /\ intervals' = <<>>) => merged' = <<>> ]_vars

\* three intervals were merged into two, and the two were merged again
C11_Witness ==
    /\ pc = "merge_again"
    /\ Len(intervals) = 3
    /\ Len(merged) = 2

(***************************************************************************)
(* C12: the results do not depend on the order of the input: the overlap   *)
(* of two stretches is the same whichever is taken first, and exchanging   *)
(* two neighbours of the list (and so, step by step, any permutation)      *)
(* changes neither the per-layer overlaps nor the merged intervals.        *)
(***************************************************************************)
C12_OrderIndependent ==
    [][ /\ \A i, j \in 1..Len(records) :
              Intersection(records[i], records[j])
                  = Intersection(records[j], records[i])
        /\ (pc = "merge_intervals" /\ pc' = pc) => merged' = merged
        /\ (pc = "find_overlaps_within_layer" /\ pc' = pc)
              => overlaps' = overlaps ]_vars

\* a list of three records of one layer, reordered so that the record that
\* starts last comes first; two of them overlap
C12_Witness ==
    /\ pc = "find_overlaps_within_layer"
    /\ Len(records) = 3
    /\ records[1].start > records[2].start
    /\ records[2].start > records[3].start
    /\ \A i \in 1..3 : records[i].layer = <<"L">>
    /\ Len(overlaps[<<"L">>]) = 1

(***************************************************************************)
(* C13: no engine function changes its input: after a call of              *)
(* merge_intervals, find_overlaps_within_layer, find_gaps_per_layer,       *)
(* build_stretch_segments, filter_records or compute_progress the list     *)
(* passed in and every dict in it have the contents they had before, and   *)
(* so have the other arguments.  (The list merge_intervals returns is the  *)
(* one the function computes on values.)                                   *)
(***************************************************************************)
C13_InputsUnchanged ==
    [][ /\ intervals' = intervals
        /\ records' = records
        /\ filter_bills' = filter_bills
        /\ filter_months' = filter_months
        /\ route_extent' = route_extent
        /\ pc' = "merge_intervals" => merged' = merge_intervals(intervals) ]_vars

\* merge_intervals has written a new end to the first dict of its result
C13_Witness ==
    /\ pc = "merge_intervals"
    /\ intervals = <<[start |-> 0, end |-> 1], [start |-> 1, end |-> 3]>>
    /\ merged = <<[start |-> 0, end |-> 3]>>

(***************************************************************************)
(* C14: every record that ingestion hands over satisfies                   *)
(* 0 <= start < end: parse_csv returns no zero-length and no reversed      *)
(* record.                                                                 *)
(***************************************************************************)
C14_IngestedRecordsValid ==
    (pc = "parse_csv" /\ ~parsed.raised) =>
        \A i \in 1..Len(parsed.records) :
            /\ 0 <= parsed.records[i].start
            /\ parsed.records[i].start < parsed.records[i].end

(***************************************************************************)
(* C15: a record that violates start < end is skipped by the engine: on a  *)
(* list with such records each query (merged coverage, overlaps, gaps per  *)
(* layer, progress lengths, segments and chunks) returns what it returns   *)
(* on the list with those records removed.                                 *)
(***************************************************************************)
SkipViolating(recs) == SelectSeq(recs, LAMBDA r : r.start < r.end)

C15_ViolatingRecordsSkipped ==
    /\ pc = "merge_intervals"
          => merged = merge_intervals(SkipViolating(intervals))
    /\ pc = "find_overlaps_within_layer"
          => overlaps = find_overlaps_within_layer(SkipViolating(records))
    /\ pc = "find_gaps_per_layer"
          => gaps = find_gaps_per_layer(SkipViolating(records))
    /\ pc = "build_stretch_segments"
          => stretch_data = build_stretch_segments(SkipViolating(records))
    /\ pc = "compute_progress"
          => LET clean == compute_progress(SkipViolating(records), route_extent)
             IN  /\ progress.overall_len = clean.overall_len
                 /\ \A l \in DOMAIN clean.per_layer :
                       progress.per_layer[l].len = clean.per_layer[l].len

(***************************************************************************)
(* C16: when no row supplies a positive Est Length, the route extent that  *)
(* parse_csv returns is max(end) - min(start) over the parsed records, and *)
(* 8000 when there are no records.                                         *)
(***************************************************************************)
C16_FallbackExtent ==
    ( /\ pc = "parse_csv"
      /\ ~parsed.raised
      /\ \A k \in 1..Len(content.rows) : EstOf(content.rows[k].est) <= 0 )
    => IF parsed.records = <<>>
       THEN parsed.route_extent = 8000
       ELSE \E i, j \in 1..Len(parsed.records) :
              /\ \A k \in 1..Len(parsed.records) :
                    /\ parsed.records[i].start <= parsed.records[k].start
                    /\ parsed.records[k].end <= parsed.records[j].end
              /\ parsed.route_extent
                    = parsed.records[j].end - parsed.records[i].start

(***************************************************************************)
(* C17: no engine query raises an exception on a validated record list,    *)
(* the empty list included: on the empty list build_stretch_segments,      *)
(* find_overlaps_within_layer, find_gaps_per_layer and compute_progress    *)
(* return empty results, and on a non-empty list the overlap and the gap   *)
(* mapping have an entry for exactly the layers present.                   *)
(***************************************************************************)
C17_NoExceptionOnValidated ==
    Valid(records) =>
        /\ pc = "build_stretch_segments" =>
              (records = <<>> =>
                  stretch_data = [segments |-> <<>>, layers |-> <<>>,
                                  chunks |-> <<>>])
        /\ pc = "find_overlaps_within_layer" =>
              DOMAIN overlaps = LayersOf(records)
        /\ pc = "find_gaps_per_layer" =>
              /\ ~gaps.raised
              /\ DOMAIN gaps.result = LayersOf(records)
        /\ pc = "compute_progress" =>
              /\ ~progress.raised
              /\ records = <<>> =>
                    /\ progress.overall_len = 0
                    /\ DOMAIN progress.per_layer = {}
                    /\ progress.per_layer_per_bill = <<>>

(***************************************************************************)
(* C18: in every state of a session with data loaded, the progress summary *)
(* the page shows is compute_progress of the records that pass the         *)
(* currently selected bills and months, with the route extent of the       *)
(* session, whatever load, upload, selection and apply events came before. *)
(***************************************************************************)
C18_ProgressMatchesSelection ==
    view = "results" =>
        progress = compute_progress(
                       filter_records(records, filter_bills, filter_months),
                       route_extent)

(***************************************************************************)
(* C19: once a dataset is loaded, the record list and the route extent of  *)
(* the session stay as they are until the next load or upload event: a     *)
(* change of the filter selection, an apply event and a rerun of the page  *)
(* change neither, in both front ends.                                     *)
(***************************************************************************)
LoadEvents ==
    {"url.pathname", "load-sample", "upload-data.contents",
     "first visit", "Load data file", "Upload CSV"}

C19_DatasetStaysUntilNextLoad ==
    [][ (loaded /\ pc' \notin LoadEvents)
            => (records' = records /\ route_extent' = route_extent) ]_vars

(***************************************************************************)
(* C20: the filter selection affects only the progress summary: whenever   *)
(* the page shows results, the segments with their layers and chunks, the  *)
(* overlaps and the gaps are those of the full record list of the session, *)
(* and progress is compute_progress of the filtered list; so with the same *)
(* record list any two selections show the same segments, overlaps and     *)
(* gaps.                                                                   *)
(***************************************************************************)
C20_FilterAffectsOnlyProgress ==
    view = "results" =>
        /\ stretch_data = build_stretch_segments(records)
        /\ overlaps = find_overlaps_within_layer(records)
        /\ gaps = find_gaps_per_layer(records)
        /\ progress = compute_progress(filtered, route_extent)

\* Apply was clicked with a selection that removes a record
C20_Witness ==
    /\ pc = "apply-progress-filter"
    /\ view = "results"
    /\ filter_bills # <<>>
    /\ Len(filtered) < Len(records)

(***************************************************************************)
(* C21: re-ingestion is atomic.  After every load or upload event whose    *)
(* dataset parses with at least one valid record, the record list of the   *)
(* session is the full list parse_csv returned for that dataset and the    *)
(* route extent is the one parse_csv returned with it; and in every state  *)
(* of a session that holds data, record list and route extent are those of *)
(* one and the same dataset.                                               *)
(***************************************************************************)
Datasets == {DATA_FILES[i] : i \in 1..Len(DATA_FILES)} \cup Uploads

C21_ReingestionAtomic ==
    /\ [](loaded =>
             \E d \in Datasets :
                 \E p \in {parse_csv(d)} :
                     /\ ~p.raised
                     /\ records = p.records
                     /\ route_extent = p.route_extent)
    /\ [][ (pc' \in LoadEvents /\ ~parsed'.raised /\ parsed'.records # <<>>)
               => /\ loaded'
                  /\ records' = parsed'.records
                  /\ route_extent' = parsed'.route_extent ]_vars

\* the second data file was loaded with the button over a session in which
\* bill B of the first data file had been selected
C21_Witness ==
    /\ pc = "load-sample"
    /\ parsed = parse_csv(DATA_FILES[2])
    /\ records = parsed.records
    /\ route_extent = parsed.route_extent
    /\ filter_bills = <<<<"B">>>>

(***************************************************************************)
(* C22: a load or upload event whose dataset fails to parse, or parses     *)
(* without a valid record, leaves the record list and the route extent the *)
(* session held before unchanged, in both front ends.                      *)
(***************************************************************************)
C22_FailedLoadKeepsDataset ==
    [][ (loaded /\ pc' \in LoadEvents
            /\ (parsed'.raised \/ parsed'.records = <<>>))
          => (records' = records /\ route_extent' = route_extent) ]_vars

(***************************************************************************)
(* C23: sessions are isolated.  With two or more sessions served by one    *)
(* front end, a load, upload, filter, apply or rerun event of the served   *)
(* session changes nothing of what any other session holds or shows; and   *)
(* when the front end turns to another session, it finds the record list,  *)
(* route extent, filter selection and outputs of that session as that      *)
(* session's last event left them, keeps those of the session it leaves,   *)
(* and changes no third session.                                           *)
(***************************************************************************)
C23_SessionsIsolated ==
    [][ \/ sessions' = sessions
        \/ \E s \in 1..Len(sessions) :
              /\ ThisSession' = [sessions[s] EXCEPT !.visited = (pc' # "init")]
              /\ pc' \in {"init", "serve"}
              /\ (pc' = "init") = ~sessions[s].visited
              /\ sessions' = [sessions EXCEPT ![s] = ThisSession]
      ]_vars

\* the served session shows the second data file with a selection while
\* another session holds the first data file with another selection
C23_Witness ==
    /\ view = "results"
    /\ records = parse_csv(DATA_FILES[2]).records
    /\ filter_bills # <<>>
    /\ \E s \in 1..Len(sessions) :
          /\ sessions[s].view = "results"
          /\ sessions[s].records = parse_csv(DATA_FILES[1]).records
          /\ sessions[s].filter_bills # filter_bills

(***************************************************************************)
(* C24: for records with start < end, the chunks list that                 *)
(* build_stretch_segments returns is the set of the chunk_start values of  *)
(* the segments it returns, in ascending order and without duplicates:     *)
(* every chunk listed holds at least one segment, also when the end of a   *)
(* record is a multiple of CHUNK_SIZE, and the chunk of every segment is   *)
(* listed.                                                                 *)
(***************************************************************************)
C24_ChunksAreSegmentChunks ==
    (/\ pc = "build_stretch_segments"
     /\ \A i \in 1..Len(records) : records[i].start < records[i].end)
        => /\ {stretch_data.chunks[k] : k \in 1..Len(stretch_data.chunks)}
                 = {stretch_data.segments[k].chunk_start :
                        k \in 1..Len(stretch_data.segments)}
           /\ \A k \in 1..(Len(stretch_data.chunks) - 1) :
                 stretch_data.chunks[k] < stretch_data.chunks[k + 1]

(***************************************************************************)
(* C25: for records with start < end, the overall length compute_progress  *)
(* reports is at least the greatest and at most the sum of the lengths it  *)
(* reports per layer; and filtering never increases coverage: the overall  *)
(* length and the length of every layer that compute_progress reports for  *)
(* filter_records(records, bills, months) are at most those it reports for *)
(* the records themselves.                                                 *)
(***************************************************************************)
PerLayerLens(p) ==
    LET ls == SortedSet(DOMAIN p.per_layer,
                        {xy \in (DOMAIN p.per_layer) \X (DOMAIN p.per_layer) :
                            StrLess(xy[1], xy[2])})
    IN  [k \in 1..Len(ls) |-> p.per_layer[ls[k]].len]

C25_ProgressBoundsAndMonotone ==
    [][ /\ pc' \in {"compute_progress", "compute_progress(filter_records)"}
           => /\ ~progress'.raised
              /\ \A l \in DOMAIN progress'.per_layer :
                    progress'.per_layer[l].len <= progress'.overall_len
              /\ progress'.overall_len <= SumSeq(PerLayerLens(progress'))
        /\ pc' = "compute_progress(filter_records)"
           => /\ progress'.overall_len <= progress.overall_len
              /\ \A l \in DOMAIN progress'.per_layer :
                    /\ l \in DOMAIN progress.per_layer
                    /\ progress'.per_layer[l].len <= progress.per_layer[l].len
      ]_vars

\* two overlapping records of two layers, one of them of a bill and a month
\* the selection rejects: the coverage of the selection is smaller
C25_Witness ==
    /\ pc = "compute_progress(filter_records)"
    /\ Len(records) = 2
    /\ records[1].layer # records[2].layer
    /\ records[1].start < records[2].start
    /\ records[2].start < records[1].end
    /\ Len(filtered) = 1
    /\ progress.overall_len
          < compute_progress(records, route_extent).overall_len

====
